---- MODULE Spec2Model ----
(***************************************************************************)
(* Model of src/app.py: the CKD prediction handler index(), its helpers    *)
(* calculate_GFR, get_stage_info and get_diet_plan, and the report         *)
(* handler download(), for one browser session of one server process.      *)
(*                                                                         *)
(* Numbers.  Every float of the program is held as an integer number of    *)
(* thousandths: 1.2 is 1200, 90 is 90000, the flag 1.0 is 1000.            *)
(* Strings that the program transforms (gender) are sequences of           *)
(* one-character strings, so that str.lower() is a real conversion.        *)
(***************************************************************************)
EXTENDS Integers, Sequences, FiniteSets, TLC

VARIABLES
    model,      \* module global `model`: "loaded" or "None"        (app.py:24-29)
    mysql,      \* module global `mysql`: "MySQL" or "None"         (app.py:38-43)
    session,    \* flask session of the browser: a dict key -> value
    state,      \* position of the current POST / request
    trace,      \* the positions the current request went through, in order
    data,       \* local `data` of index(): the parsed form, <<>> before parsing
    pred,       \* local `pred` of index()
    path,       \* which branch of app.py:147-162 produced pred
    calls,      \* how often the current request called each collaborator
    outcome,    \* what model.predict(arr) did in the current request
    store,      \* what the diet store did in the current request
    response,   \* what the current request returned
    report,     \* what the last GET /download drew, <<>> if none since the last POST
    predFor,    \* history: the submission session['pred'] was computed from:
                \* "none", "current" (the one whose fields the session holds)
                \* or "earlier"
    probeA,     \* inputs and results of stand-alone get_stage_info evaluations
    probeB,
    stageA,
    stageB

vars == <<model, mysql, session, state, trace, data, pred, path, calls, outcome,
          store, response, report, predFor, probeA, probeB, stageA, stageB>>

runVars == <<model, mysql, session, state, trace, data, pred, path, calls, outcome,
             store, response, report, predFor>>

probeVars == <<probeA, probeB, stageA, stageB>>

(***************************************************************************)
(* Input domains                                                           *)
(***************************************************************************)

\* gender strings a form may carry
GenderMale == <<"m", "a", "l", "e">>

GenderFemaleCap == <<"F", "e", "m", "a", "l", "e">>

GenderUnknown == <<"u", "n", "k", "n", "o", "w", "n">>

Genders == {GenderMale, GenderFemaleCap, GenderUnknown}

\* serum creatinine: 0, the fallback threshold 1.2 itself, and 1.62
ScValues == {0, 1200, 1620}

\* blood urea: the threshold 20 itself and 21
BuValues == {20000, 21000}

\* hemoglobin: 11 and the threshold 12 itself
HemoValues == {11000, 12000}

\* flags: 0.0 and 1.0
FlagValues == {0, 1000}

\* age: 23 years
AgeValues == {23000}

\* The parsed form (app.py:101-128).  The 17 numeric fields that neither the
\* fallback rule nor calculate_GFR reads (bp, sg, ..., ane) and the name are
\* carried exactly like age and are left out.
Records ==
    [age : AgeValues, gender : Genders, sc : ScValues, bu : BuValues,
     hemo : HemoValues, htn : FlagValues, dm : FlagValues]

\* A submitted form: one that parses to a record, one with a value float()
\* rejects, or one that lacks a key.
Forms ==
    [bad : {"none"}, fields : Records]
        \cup [bad : {"not_a_number", "missing_key"}, fields : {<<>>}]

\* What model.predict(arr) does: returns a label, or raises.
Exceptions ==
    [cls : {"AttributeError", "ValueError", "RuntimeError"}, monotonic_cst : BOOLEAN]

ClassifierOutcomes ==
    [kind : {"returns"}, value : {0, 1}] \cup [kind : {"raises"}, exc : Exceptions]

\* What the diet store does during one get_diet_plan: every call succeeds
\* ("ok"), or the named call is the first to raise: connection.cursor(), the
\* Veg execute/fetchall, the NonVeg execute/fetchall, cur.close().
StoreOutcomes == {"ok", "cursor", "veg", "nonveg", "close"}

(***************************************************************************)
(* Pure helpers                                                            *)
(***************************************************************************)

\* str.lower() on one character
LowerChar(c) ==
    CASE c = "M" -> "m"
      [] c = "A" -> "a"
      [] c = "L" -> "l"
      [] c = "E" -> "e"
      [] c = "F" -> "f"
      [] OTHER -> c

\* str.lower()
lower(s) == [i \in DOMAIN s |-> LowerChar(s[i])]

Male == <<"m", "a", "l", "e">>

Female == <<"f", "e", "m", "a", "l", "e">>

Return(v) == [ok |-> TRUE, value |-> v, exc |-> "", at |-> ""]

Raise(cls, where) == [ok |-> FALSE, value |-> 0, exc |-> cls, at |-> where]

\* The value of the MDRD expression of app.py:50-62 in thousandths (floor), for
\* the lower-cased gender g, Scr > 0 and age, as CPython evaluates it:
\*   kappa = 0.7 / 0.9, alpha = -0.329 / -0.411 (female / male),
\*   141 * min(Scr/kappa,1)^alpha * max(Scr/kappa,1)^-1.209 * 0.993^age * 1.018
MDRD(g, Scr, age) ==
    CASE g = Male   /\ Scr = 1200 /\ age = 23000 -> 86247   \* 86.24792859749216
      [] g = Male   /\ Scr = 1620 /\ age = 23000 -> 60003   \* 60.003301582886984
      [] g = Female /\ Scr = 1200 /\ age = 23000 -> 63649   \* 63.64920887151144
      [] g = Female /\ Scr = 1620 /\ age = 23000 -> 44281   \* 44.28121043060642

\* calculate_GFR without the str.lower() of line 47
calculate_GFR_CaseSensitive(Scr, gender, age) ==
    IF gender \notin {Male, Female}
    THEN Raise("ValueError", "gender")
    ELSE IF Scr <= 0
         THEN Raise("ValueError", "pow")
         ELSE Return(MDRD(gender, Scr, age))

\* calculate_GFR (app.py:45-64).  math.pow of a base <= 0 to the negative
\* non-integer power alpha raises ValueError("math domain error").
calculate_GFR(Scr, gender, age) ==
    IF lower(gender) \notin {Male, Female}
    THEN Raise("ValueError", "gender")
    ELSE IF Scr <= 0
         THEN Raise("ValueError", "pow")
         ELSE Return(MDRD(lower(gender), Scr, age))

\* get_stage_info with the comparisons made inclusive
get_stage_info_Inclusive(gfr) ==
    IF gfr >= 90000
    THEN [info |-> "Stage 1: Healthy kidneys or kidney damage with normal or high GFR",
          code |-> "Stg1"]
    ELSE IF gfr >= 60000
    THEN [info |-> "Stage 2: Kidney damage and mild decrease in GFR", code |-> "Stg2"]
    ELSE IF gfr >= 30000
    THEN [info |-> "Stage 3: Moderate decrease in GFR", code |-> "Stg3"]
    ELSE IF gfr >= 15000
    THEN [info |-> "Stage 4: Severe decrease in GFR", code |-> "Stg4"]
    ELSE [info |-> "Stage 5: Kidney Failure", code |-> "Stg5"]

\* get_stage_info (app.py:83-94)
get_stage_info(gfr) ==
    IF gfr > 90000
    THEN [info |-> "Stage 1: Healthy kidneys or kidney damage with normal or high GFR",
          code |-> "Stg1"]
    ELSE IF gfr > 60000
    THEN [info |-> "Stage 2: Kidney damage and mild decrease in GFR", code |-> "Stg2"]
    ELSE IF gfr > 30000
    THEN [info |-> "Stage 3: Moderate decrease in GFR", code |-> "Stg3"]
    ELSE IF gfr > 15000
    THEN [info |-> "Stage 4: Severe decrease in GFR", code |-> "Stg4"]
    ELSE [info |-> "Stage 5: Kidney Failure", code |-> "Stg5"]

\* cutting the third decimal instead of rounding
round2_Truncate(gfr) == gfr - (gfr % 10)

\* round(gfr, 2) (app.py:174), result again in thousandths.  The tabulated
\* values are floors of non-tie floats, so a third decimal of 5 or more lies
\* above the half and rounds up.
round2(gfr) ==
    LET low == gfr - (gfr % 10)
    IN  IF gfr % 10 >= 5 THEN low + 10 ELSE low

\* The rows the diet_plan table holds for (Stage, dietType): read-only reference data.
DietRows(stage, dietType) == <<[Stage |-> stage, dietType |-> dietType]>>

\* get_diet_plan that returns the rows fetched before the failure
get_diet_plan_Partial(stage, st) ==
    IF mysql = "None"
    THEN [veg |-> <<>>, nonveg |-> <<>>]
    ELSE IF st = "ok"
         THEN [veg |-> DietRows(stage, "Veg"), nonveg |-> DietRows(stage, "NonVeg")]
         ELSE IF st = "nonveg"
              THEN [veg |-> DietRows(stage, "Veg"), nonveg |-> <<>>]
              ELSE [veg |-> <<>>, nonveg |-> <<>>]

\* get_diet_plan (app.py:66-81): st is what the store does during the call
get_diet_plan(stage, st) ==
    IF mysql = "None"
    THEN [veg |-> <<>>, nonveg |-> <<>>]
    ELSE IF st = "ok"
         THEN [veg |-> DietRows(stage, "Veg"), nonveg |-> DietRows(stage, "NonVeg")]
         ELSE [veg |-> <<>>, nonveg |-> <<>>]

\* the fallback rule with non-strict thresholds
FallbackRule_NonStrict(d) ==
    IF d.sc >= 1200 \/ d.bu >= 20000 \/ d.hemo <= 12000 \/ d.htn = 1000 \/ d.dm = 1000
    THEN 1
    ELSE 0

\* The rule of app.py:155-159
FallbackRule(d) ==
    IF d.sc > 1200 \/ d.bu > 20000 \/ d.hemo < 12000 \/ d.htn = 1000 \/ d.dm = 1000
    THEN 1
    ELSE 0

\* a catch of every AttributeError
IsCompatibilityError_AnyAttributeError(e) == e.cls = "AttributeError"

\* except AttributeError as e: if 'monotonic_cst' in str(e) (app.py:150-151)
IsCompatibilityError(e) == e.cls = "AttributeError" /\ e.monotonic_cst

(***************************************************************************)
(* The session (a dict) and the responses                                  *)
(***************************************************************************)

\* for key, value in data.items(): session[key] = value (app.py:131-132)
SessionStore(s, d) ==
    [k \in DOMAIN s \cup DOMAIN d |-> IF k \in DOMAIN d THEN d[k] ELSE s[k]]

\* session['pred'] = bool(pred) (app.py:149, 160)
SessionSetPred(s, p) ==
    [k \in DOMAIN s \cup {"pred"} |-> IF k = "pred" THEN (p # 0) ELSE s[k]]

\* session.get(key, default)
SessionGet(s, k, default) == IF k \in DOMAIN s THEN s[k] ELSE default

NoResponse == [kind |-> "none", template |-> "", flash |-> "", ctx |-> <<>>]

\* flash(message, 'error'); return redirect(url_for('index'))
Redirect(message) == [kind |-> "redirect", template |-> "", flash |-> message, ctx |-> <<>>]

\* return render_template(template, **ctx)
Render(template, ctx) == [kind |-> "render", template |-> template, flash |-> "", ctx |-> ctx]

\* The except clauses of index() (app.py:180-186)
HandleException(cls) ==
    IF cls = "ValueError"
    THEN Redirect("Please check your input values")
    ELSE Redirect("An error occurred during prediction")

NoCalls ==
    [predict |-> 0, fallback |-> 0, calculate_GFR |-> 0, pow |-> 0,
     get_stage_info |-> 0, get_diet_plan |-> 0]

NoOutcome == [kind |-> "none"]

Terminal == {"Resolved", "Negative", "Error"}

\* the model check of line 143 left out
ModelAvailable_Always == TRUE

\* if model is None (app.py:143), negated
ModelAvailable == model # "None"

\* `if pred:` taken whatever pred is
Truthy_Always(p) == TRUE

\* `if pred:` (app.py:164)
Truthy(p) == p # 0

\* the classifier call tried again after a failure
AfterClassifierFailure_Retry == "Pending"

\* Where a failed classifier call leaves the request: the exception leaves the
\* try block and an except clause returns the redirect (app.py:161-162, 180-186)
AfterClassifierFailure == "Error"

Init ==
    /\ model \in {"loaded", "None"}
    /\ mysql \in {"MySQL", "None"}
    /\ session = <<>>
    /\ state = "Idle"
    /\ trace = <<>>
    /\ data = <<>>
    /\ pred = 0
    /\ path = "none"
    /\ calls = NoCalls
    /\ outcome = NoOutcome
    /\ store = "none"
    /\ response = NoResponse
    /\ report = <<>>
    /\ predFor = "none"
    /\ probeA = 0 /\ probeB = 0
    /\ stageA = [info |-> "", code |-> ""]
    /\ stageB = [info |-> "", code |-> ""]

\* index(), POST, up to the classifier call (app.py:98-145): parse the form,
\* store it in the session, build arr, check that a model is loaded.
Submit(form) ==
    /\ state \in Terminal \cup {"Idle"}
    /\ pred' = 0
    /\ path' = "none"
    /\ calls' = NoCalls
    /\ outcome' = NoOutcome
    /\ store' = "none"
    /\ report' = <<>>
    /\ UNCHANGED <<model, mysql, probeVars>>
    /\ IF form.bad = "not_a_number"
       THEN \* float(...) raises ValueError inside the dict display
            /\ data' = <<>>
            /\ UNCHANGED <<session, predFor>>
            /\ state' = "Error"
            /\ response' = HandleException("ValueError")
       ELSE IF form.bad = "missing_key"
       THEN \* request.form[...] raises a KeyError
            /\ data' = <<>>
            /\ UNCHANGED <<session, predFor>>
            /\ state' = "Error"
            /\ response' = HandleException("KeyError")
       ELSE /\ data' = form.fields
            /\ session' = SessionStore(session, form.fields)
            /\ predFor' = IF predFor = "none" THEN "none" ELSE "earlier"
            /\ IF ModelAvailable
               THEN /\ state' = "Pending"
                    /\ response' = NoResponse
               ELSE /\ state' = "Error"
                    /\ response' = Redirect("Error: ML model not available")
    /\ trace' = <<state'>>

\* index(), the classifier call and its except clause (app.py:147-162)
Predict(o) ==
    /\ state = "Pending"
    /\ outcome' = o
    /\ calls' = [calls EXCEPT !.predict = @ + 1,
                             !.fallback = @ + (IF o.kind = "raises"
                                                  /\ IsCompatibilityError(o.exc)
                                               THEN 1 ELSE 0)]
    /\ UNCHANGED <<model, mysql, data, store, report, probeVars>>
    /\ IF o.kind = "returns"
       THEN /\ pred' = o.value
            /\ path' = "primary"
            /\ session' = SessionSetPred(session, o.value)
            /\ predFor' = "current"
            /\ state' = "Predicted"
            /\ response' = NoResponse
       ELSE IF IsCompatibilityError(o.exc)
       THEN /\ pred' = FallbackRule(data)
            /\ path' = "fallback"
            /\ session' = SessionSetPred(session, FallbackRule(data))
            /\ predFor' = "current"
            /\ state' = "Predicted"
            /\ response' = NoResponse
       ELSE \* raise e, or an exception the inner try does not catch
            /\ pred' = 0
            /\ path' = "none"
            /\ UNCHANGED <<session, predFor>>
            /\ state' = AfterClassifierFailure
            /\ response' = IF AfterClassifierFailure = "Error"
                           THEN HandleException(o.exc.cls)
                           ELSE NoResponse
    /\ trace' = Append(trace, state')

\* index(), from `if pred:` to the return (app.py:164-186).  st is what the
\* diet store does if get_diet_plan is reached; on the branches that never
\* reach it the store is not consulted and st is fixed to "ok".
Resolve(st) ==
    /\ state = "Predicted"
    /\ UNCHANGED <<model, mysql, session, data, pred, path, outcome, report,
                   predFor, probeVars>>
    /\ IF Truthy(pred)
       THEN LET g == calculate_GFR(data.sc, data.gender, data.age)
                stage == get_stage_info(g.value)
                diet == get_diet_plan(stage.code, st)
            IN  IF g.ok
                THEN /\ state' = "Resolved"
                     /\ store' = IF mysql = "None" THEN "none" ELSE st
                     /\ calls' = [calls EXCEPT !.calculate_GFR = @ + 1, !.pow = @ + 1,
                                               !.get_stage_info = @ + 1,
                                               !.get_diet_plan = @ + 1]
                     /\ response' = Render("resultp.html",
                                          [stage_info |-> stage.info,
                                           gfr |-> round2(g.value),
                                           veg_diet |-> diet.veg,
                                           nonveg_diet |-> diet.nonveg])
                ELSE /\ st = "ok"
                     /\ state' = "Error"
                     /\ store' = "none"
                     /\ calls' = [calls EXCEPT !.calculate_GFR = @ + 1,
                                               !.pow = @ + (IF g.at = "pow" THEN 1 ELSE 0)]
                     /\ response' = HandleException(g.exc)
       ELSE /\ st = "ok"
            /\ state' = "Negative"
            /\ store' = "none"
            /\ calls' = calls
            /\ response' = Render("resultn.html", <<>>)
    /\ trace' = Append(trace, state')

\* The fields download() reads from the session (app.py:195-197), as modelled
DownloadFields == {"age", "sc", "bu", "hemo", "htn", "dm"}

\* text_mappings applied to one field (app.py:203-218)
ReadableText(field, v) ==
    IF field \in {"htn", "dm"} /\ v \in {0, 1000}
    THEN (IF v = 0 THEN "no" ELSE "yes")
    ELSE v

\* download() (app.py:190-469): each field from the session or 'N/A', the
\* flag fields as text, and the result box chosen by session.get('pred', False)
Download ==
    /\ state \in Terminal \cup {"Idle"}
    /\ report' =
          [data |-> [f \in DownloadFields |->
                       IF f \in DOMAIN session
                       THEN ReadableText(f, session[f])
                       ELSE "N/A"],
           pred |-> SessionGet(session, "pred", FALSE),
           headline |-> IF SessionGet(session, "pred", FALSE)
                        THEN "CKD DETECTED - POSITIVE"
                        ELSE "CKD NOT DETECTED - NEGATIVE"]
    /\ UNCHANGED <<model, mysql, session, state, trace, data, pred, path, calls,
                   outcome, store, response, predFor, probeVars>>

Next ==
    \/ \E form \in Forms : Submit(form)
    \/ \E o \in ClassifierOutcomes : Predict(o)
    \/ \E st \in StoreOutcomes : Resolve(st)
    \/ Download

Spec == Init /\ [][Next]_vars

\* The handler is straight-line synchronous code: once the form is parsed the
\* classifier call is made, and once it returned the branch on pred runs.
FairSpec ==
    /\ Spec
    /\ WF_vars(\E o \in ClassifierOutcomes : Predict(o))
    /\ WF_vars(\E st \in StoreOutcomes : Resolve(st))

(***************************************************************************)
(* get_stage_info on its own: two arbitrary eGFR values are classified     *)
(***************************************************************************)

\* how far around each threshold (in thousandths) the probed values reach
ProbeRadius == 2

StageThresholds == {15000, 30000, 60000, 90000}

GfrProbes ==
    {t + d : t \in StageThresholds \cup {0}, d \in (0 - ProbeRadius) .. ProbeRadius}
        \cup {0 - 50000, 45000, 150000}

InitStage ==
    /\ model = "loaded"
    /\ mysql = "MySQL"
    /\ session = <<>>
    /\ state = "Idle"
    /\ trace = <<>>
    /\ data = <<>>
    /\ pred = 0
    /\ path = "none"
    /\ calls = NoCalls
    /\ outcome = NoOutcome
    /\ store = "none"
    /\ response = NoResponse
    /\ report = <<>>
    /\ predFor = "none"
    /\ probeA \in GfrProbes
    /\ probeB \in GfrProbes
    /\ stageA = [info |-> "", code |-> ""]
    /\ stageB = [info |-> "", code |-> ""]

\* stage_info, stage_code = get_stage_info(gfr), for both probed values
Classify ==
    /\ stageA.code = ""
    /\ stageA' = get_stage_info(probeA)
    /\ stageB' = get_stage_info(probeB)
    /\ UNCHANGED <<runVars, probeA, probeB>>

NextStage == Classify

SpecStage == InitStage /\ [][NextStage]_vars

(***************************************************************************)
(* The claims                                                              *)
(***************************************************************************)

Parsed == DOMAIN data # {}

ValidGender(gender) == lower(gender) \in {Male, Female}

CtxGet(key) == IF key \in DOMAIN response.ctx THEN response.ctx[key] ELSE <<>>

CompatibilityOutcome ==
    /\ outcome.kind = "raises"
    /\ outcome.exc.cls = "AttributeError"
    /\ outcome.exc.monotonic_cst

\* C1: whenever the fallback path is taken, the prediction is positive if and
\* only if sc > 1.2 or bu > 20 or hemo < 12 or htn == 1 or dm == 1; it is the
\* same for every record that agrees on these five fields; and a record with
\* sc <= 1.2, bu <= 20, hemo >= 12 and both flags off is negative.
C1_FallbackRule ==
    path = "fallback" =>
        /\ pred \in {0, 1}
        /\ (pred = 1) <=> \/ data.sc > 1200
                          \/ data.bu > 20000
                          \/ data.hemo < 12000
                          \/ data.htn = 1000
                          \/ data.dm = 1000
        /\ \A r \in Records :
              (/\ r.sc = data.sc /\ r.bu = data.bu /\ r.hemo = data.hemo
               /\ r.htn = data.htn /\ r.dm = data.dm) => FallbackRule(r) = pred
        /\ (/\ data.sc <= 1200 /\ data.bu <= 20000 /\ data.hemo >= 12000
            /\ data.htn = 0 /\ data.dm = 0) => pred = 0
        /\ session["pred"] = (pred = 1)

\* C1 witness: the fallback ran on a record with every value on its threshold
C1_Witness ==
    /\ path = "fallback"
    /\ state = "Negative"
    /\ data.sc = 1200 /\ data.bu = 20000 /\ data.hemo = 12000
    /\ data.htn = 0 /\ data.dm = 0

\* C2: the fallback rule is evaluated exactly when the classifier call raises
\* an AttributeError carrying 'monotonic_cst'; when the call returns, its
\* value is the prediction; on any other failure the request ends in the
\* error redirect with no prediction, GFR, stage or diet computed.
C2_FallbackOnlyOnCompatibilityError ==
    /\ (path = "fallback") <=> CompatibilityOutcome
    /\ (calls.fallback = 1) <=> CompatibilityOutcome
    /\ calls.fallback <= 1
    /\ outcome.kind = "returns" => path = "primary" /\ pred = outcome.value
    /\ (outcome.kind = "raises" /\ ~CompatibilityOutcome) =>
          /\ state = "Error"
          /\ response = HandleException(outcome.exc.cls)
          /\ path = "none"
          /\ calls.calculate_GFR = 0
          /\ calls.get_stage_info = 0
          /\ calls.get_diet_plan = 0

\* C2 witness: an AttributeError without the signature ended the request
C2_Witness ==
    /\ outcome.kind = "raises"
    /\ outcome.exc = [cls |-> "AttributeError", monotonic_cst |-> FALSE]
    /\ state = "Error"
    /\ Parsed /\ data.sc = 1620

\* C3: with no model loaded, a request never calls the classifier, never
\* evaluates the fallback, computes no GFR, stage or diet and renders no
\* result; every record submitted ends in the model-unavailable redirect.
C3_ModelUnavailableFailsFast ==
    model = "None" =>
        /\ calls = NoCalls
        /\ outcome.kind = "none"
        /\ path = "none"
        /\ state \in {"Idle", "Error"}
        /\ response.kind # "render"
        /\ (state = "Error" /\ Parsed) =>
              response = Redirect("Error: ML model not available")

\* C3 witness: a record was submitted with no model loaded
C3_Witness ==
    /\ model = "None"
    /\ state = "Error"
    /\ Parsed /\ data.sc = 1620 /\ data.gender = GenderUnknown

\* C4: a rendered result carries gfr and stage_info if and only if the
\* prediction is positive; a negative result carries no diet rows and was
\* produced without calling calculate_GFR, get_stage_info or get_diet_plan.
C4_DiagnosisShape ==
    response.kind = "render" =>
        /\ ("gfr" \in DOMAIN response.ctx) <=> (pred # 0)
        /\ ("stage_info" \in DOMAIN response.ctx) <=> (pred # 0)
        /\ (response.template = "resultp.html") <=> (pred # 0)
        /\ pred = 0 =>
              /\ response.template = "resultn.html"
              /\ CtxGet("veg_diet") = <<>>
              /\ CtxGet("nonveg_diet") = <<>>
              /\ calls.calculate_GFR = 0
              /\ calls.pow = 0
              /\ calls.get_stage_info = 0
              /\ calls.get_diet_plan = 0
              /\ store = "none"

\* C4 witness: a negative result for a record with an unusable gender and sc = 0
C4_Witness ==
    /\ state = "Negative"
    /\ response.kind = "render"
    /\ data.gender = GenderUnknown
    /\ data.sc = 0

\* C5 as stated: a record whose gender is not male/female (case-insensitive)
\* ends in the validation failure whatever the prediction, and every case
\* variant of male/female is accepted.
C5_InvalidGenderAlwaysRejected ==
    (state \in Terminal /\ path # "none") =>
        /\ ~ValidGender(data.gender) =>
              (state = "Error" /\ response = HandleException("ValueError"))
        /\ ValidGender(data.gender) => ~(state = "Error" /\ calls.pow = 0)

\* C5 amended: when the prediction is positive, a record whose gender is not
\* male/female (case-insensitive) ends in the validation failure, raised
\* before any GFR arithmetic; when the prediction is negative the gender is
\* not examined and the negative result is rendered.  Every case variant of
\* male/female is accepted.
C5_InvalidGenderRejectedWhenPositive ==
    (state \in Terminal /\ path # "none") =>
        /\ (~ValidGender(data.gender) /\ pred # 0) =>
              /\ state = "Error"
              /\ response = HandleException("ValueError")
              /\ calls.calculate_GFR = 1
              /\ calls.pow = 0
              /\ calls.get_stage_info = 0
              /\ calls.get_diet_plan = 0
        /\ (~ValidGender(data.gender) /\ pred = 0) =>
              /\ state = "Negative"
              /\ calls.calculate_GFR = 0
        /\ ValidGender(data.gender) => ~(state = "Error" /\ calls.pow = 0)
        /\ (ValidGender(data.gender) /\ pred # 0 /\ data.sc > 0) => state = "Resolved"

\* C5 witness: positive prediction, gender "unknown", and sc = 0 on which the
\* arithmetic would have raised
C5_Witness ==
    /\ state = "Error"
    /\ path # "none"
    /\ pred = 1
    /\ data.gender = GenderUnknown
    /\ data.sc = 0
    /\ calls.pow = 0

\* C6: whatever the diet store does, a positive request whose GFR is
\* computable is rendered as a positive result with the gfr and stage the
\* record determines; when the store is absent or any of its calls raises,
\* both diet sequences are empty, and otherwise both hold the stored rows.
C6_DietFailureAbsorbed ==
    (state \in Terminal /\ path # "none" /\ pred # 0) =>
        LET g == calculate_GFR(data.sc, data.gender, data.age)
            stage == get_stage_info(g.value)
        IN  g.ok =>
              /\ state = "Resolved"
              /\ response.template = "resultp.html"
              /\ response.ctx.gfr = round2(g.value)
              /\ response.ctx.stage_info = stage.info
              /\ calls.get_diet_plan = 1
              /\ (mysql = "None" \/ store # "ok") =>
                    /\ response.ctx.veg_diet = <<>>
                    /\ response.ctx.nonveg_diet = <<>>
              /\ (mysql # "None" /\ store = "ok") =>
                    /\ response.ctx.veg_diet = DietRows(stage.code, "Veg")
                    /\ response.ctx.nonveg_diet = DietRows(stage.code, "NonVeg")

\* C6 witness: the Veg query succeeded and the NonVeg query raised
C6_Witness ==
    /\ state = "Resolved"
    /\ mysql = "MySQL"
    /\ store = "nonveg"
    /\ response.ctx.veg_diet = <<>>
    /\ response.ctx.nonveg_diet = <<>>

StageNumber(code) ==
    CASE code = "Stg1" -> 1
      [] code = "Stg2" -> 2
      [] code = "Stg3" -> 3
      [] code = "Stg4" -> 4
      [] code = "Stg5" -> 5

LabelNumber(info) ==
    CASE info = "Stage 1: Healthy kidneys or kidney damage with normal or high GFR" -> 1
      [] info = "Stage 2: Kidney damage and mild decrease in GFR" -> 2
      [] info = "Stage 3: Moderate decrease in GFR" -> 3
      [] info = "Stage 4: Severe decrease in GFR" -> 4
      [] info = "Stage 5: Kidney Failure" -> 5
      [] OTHER -> 0

StageBand(gfr, code) ==
    /\ code \in {"Stg1", "Stg2", "Stg3", "Stg4", "Stg5"}
    /\ (code = "Stg1") <=> (gfr > 90000)
    /\ (code = "Stg2") <=> (60000 < gfr /\ gfr <= 90000)
    /\ (code = "Stg3") <=> (30000 < gfr /\ gfr <= 60000)
    /\ (code = "Stg4") <=> (15000 < gfr /\ gfr <= 30000)
    /\ (code = "Stg5") <=> (gfr <= 15000)

\* C7: get_stage_info maps every eGFR to exactly one code: > 90 Stg1,
\* (60, 90] Stg2, (30, 60] Stg3, (15, 30] Stg4, <= 15 (zero and negative
\* included) Stg5; the label names the stage of the code; and of two eGFR
\* values the smaller never gets the lower stage number.
C7_StageTotalAndMonotone ==
    stageA.code # "" =>
        /\ StageBand(probeA, stageA.code)
        /\ StageBand(probeB, stageB.code)
        /\ LabelNumber(stageA.info) = StageNumber(stageA.code)
        /\ LabelNumber(stageB.info) = StageNumber(stageB.code)
        /\ probeA <= probeB => StageNumber(stageA.code) >= StageNumber(stageB.code)

\* C7 witness: exactly 90 classified as stage 2 and a negative value as stage 5
C7_Witness ==
    /\ probeA = 0 - 1 /\ stageA.code = "Stg5"
    /\ probeB = 90000 /\ stageB.code = "Stg2"

RunTraces ==
    {<<>>, <<"Pending">>, <<"Error">>,
     <<"Pending", "Predicted">>, <<"Pending", "Error">>,
     <<"Pending", "Predicted", "Resolved">>,
     <<"Pending", "Predicted", "Negative">>,
     <<"Pending", "Predicted", "Error">>}

TraceOK ==
    /\ trace \in RunTraces
    /\ (trace # <<>> => state = trace[Len(trace)])
    /\ calls.predict <= 1
    /\ calls.get_diet_plan <= 1

TerminalStays ==
    state \in {"Resolved", "Negative"} =>
        \/ (state' = state /\ trace' = trace)
        \/ Len(trace') = 1

\* C8: a request goes Pending -> Predicted -> (Resolved | Negative), possibly
\* leaving for the error outcome instead of a step, and visits no state
\* twice; it calls the classifier and get_diet_plan at most once; Resolved and
\* Negative are left only by a new submission; and every request that
\* started ends in Resolved, Negative or the error outcome.
C8_RunIsLinear ==
    /\ []TraceOK
    /\ [][TerminalStays]_vars
    /\ (state \in {"Pending", "Predicted"}) ~> (state \in Terminal)

\* C8 witness: a request that went through all three states, one call each
C8_Witness ==
    /\ trace = <<"Pending", "Predicted", "Resolved">>
    /\ calls.predict = 1
    /\ calls.get_diet_plan = 1
    /\ store = "veg"

\* C9: whenever a report is drawn for patient fields kept in the session, the
\* session holds a prediction and it was computed from those fields.
C9_ReportOutcomeMatchesFields ==
    (DOMAIN report # {} /\ "sc" \in DOMAIN session) =>
        /\ "pred" \in DOMAIN session
        /\ predFor = "current"

\* the stage number the thresholds > 90, > 60, > 30, > 15 give for x
ThresholdStage(x) ==
    IF x > 90000 THEN 1
    ELSE IF x > 60000 THEN 2
    ELSE IF x > 30000 THEN 3
    ELSE IF x > 15000 THEN 4
    ELSE 5

JustAboveThreshold(x) == \E t \in StageThresholds : t < x /\ x < t + 5

\* C10 as stated: in every positive result the reported stage is the stage
\* the thresholds give for the displayed (rounded) gfr.
C10_StageMatchesDisplayedGfr ==
    state = "Resolved" =>
        ThresholdStage(response.ctx.gfr) = LabelNumber(response.ctx.stage_info)

\* C10 amended: in every positive result the reported stage is the stage the
\* thresholds give for the unrounded eGFR and the displayed gfr is that value
\* rounded to the nearest hundredth; the thresholds applied to the displayed
\* gfr give the reported stage, except when the eGFR lies less than 0.005
\* above a threshold: then the displayed gfr is the threshold itself and
\* gives the next more severe stage.
C10_StageMatchesUnroundedGfr ==
    state = "Resolved" =>
        LET g == calculate_GFR(data.sc, data.gender, data.age).value
            shown == response.ctx.gfr
            n == LabelNumber(response.ctx.stage_info)
        IN  /\ n = ThresholdStage(g)
            /\ shown % 10 = 0
            /\ shown - g <= 5
            /\ g - shown < 5
            /\ IF JustAboveThreshold(g)
               THEN shown \in StageThresholds /\ ThresholdStage(shown) = n + 1
               ELSE ThresholdStage(shown) = n
            /\ \A x \in GfrProbes :
                  ThresholdStage(round2(x)) =
                      StageNumber(get_stage_info(x).code)
                          + (IF JustAboveThreshold(x) THEN 1 ELSE 0)

\* C10 witness: eGFR 60.003 reported as stage 2 and displayed as 60.0
C10_Witness ==
    /\ state = "Resolved"
    /\ calculate_GFR(data.sc, data.gender, data.age).value = 60003
    /\ response.ctx.gfr = 60000
    /\ LabelNumber(response.ctx.stage_info) = 2

====
